---- MODULE Spec2Model ----
(***************************************************************************)
(* The X402 payment gate of src/src/x402-plugin.ts: the ledger store       *)
(* (X402Database), the access decision engine (X402Service), the chain     *)
(* verifier (verifyPaymentOnChain), the identity resolver (extractUserId)  *)
(* and the request gate (x402Provider and the plugin's action handlers).   *)
(*                                                                         *)
(* Time is counted in minutes since the epoch; a calendar day is `now`     *)
(* divided by DayMinutes (the code compares UTC date strings).  Token      *)
(* amounts are the raw uint256 of the Transfer event, i.e. 10^-6 USDC.     *)
(***************************************************************************)
EXTENDS Integers, Sequences, FiniteSets, TLC

\* ------------------------------------------------------------------------
\* CONFIG (x402-plugin.ts:24-33)
\* ------------------------------------------------------------------------
FREE_DAILY_LIMIT == 3
PRO_PRICE_USDC == 5
PRO_DURATION_DAYS == 30
\* SINGLE_CREDIT_PRICE_USDC = 0.1, in raw token units (6 decimals)
SINGLE_CREDIT_PRICE_RAW == 100000
\* ethers.formatUnits(value, 6): raw units per USDC
RAW_PER_USDC == 1000000
\* minutes in one UTC calendar day (toISOString().split('T')[0])
DayMinutes == 1440
\* the marker window of the cleanup timer, 5 * 60 * 1000 ms, in minutes
WindowMinutes == 5
\* the period of the cleanup timer, 60 * 1000 ms, in minutes
SweepPeriodMinutes == 1

\* ------------------------------------------------------------------------
\* Bounds of the model
\* ------------------------------------------------------------------------
\* how many times the clock is advanced in one run
MaxTicks == 2
\* how many VERIFY_PAYMENT handlers may be in flight at once
MaxHandlers == 2
\* how many minutes the clock of the cleanup timer runs
MaxMinutes == 8

\* ------------------------------------------------------------------------
\* JavaScript values: a message field is undefined, a string or a number.
\* `s` is the value's String() rendering, which is also what SQLite stores
\* when the value is bound to the TEXT column user_id.
\* ------------------------------------------------------------------------
Undef == [t |-> "undefined", s |-> ""]
Str(x) == [t |-> "string", s |-> x]
Num(x) == [t |-> "number", s |-> x]
Truthy(v) == v.t # "undefined" /\ v.s # "" /\ ~(v.t = "number" /\ v.s = "0")
\* a || b
Or(a, b) == IF Truthy(a) THEN a ELSE b

\* ------------------------------------------------------------------------
\* Message texts are sequences of tokens.  A token stands for a word of the
\* text; the tables below say what the code's string tests see in it.
\* "0x..." tokens stand for 0x followed by 64 hex digits.
\* ------------------------------------------------------------------------
ADMIN_SECRET == "x402-admin-secret"
TxIds == {"0xa1", "0xA1", "0xb2", "0xb7", "0xc3", "0xd4", "0xd5", "0xe5", "0xe6", "0xf6"}
\* the hash with its hex digits in lower case: "0xA1" stands for the hash
\* "0xa1" written with upper-case digits, which /0x[a-fA-F0-9]{64}/ matches
LowerHex(txHash) == IF txHash = "0xA1" THEN "0xa1" ELSE txHash
QuoteTokens == {"'"}
\* tokens whose lower-cased form contains one of the skip words of the
\* provider: 'paid', '0x', 'status', 'admin logout'
PaidTokens == {"paid"}
\* tokens that contain '0x' and are no transaction hash
HexPrefixTokens == {"0x12"}
StatusTokens == {"status"}
LogoutTokens == {"admin logout"}
TextHas(text, toks) == \E i \in 1..Len(text) : text[i] \in toks

\* text.match(/0x[a-fA-F0-9]{64}/): the first transaction-hash token, or ""
RECURSIVE FirstTx(_)
FirstTx(text) ==
    IF text = <<>> THEN ""
    ELSE IF Head(text) \in TxIds THEN Head(text)
    ELSE FirstTx(Tail(text))

\* (text).trim().replace(/^["']|["']$/g, ''): one leading and one trailing
\* quote are removed
StripQuotes(text) ==
    LET a == IF text # <<>> /\ Head(text) \in QuoteTokens THEN Tail(text) ELSE text
    IN IF a # <<>> /\ a[Len(a)] \in QuoteTokens THEN SubSeq(a, 1, Len(a) - 1) ELSE a

\* (envKey && cleanedText === envKey) || cleanedText === 'x402-admin-secret'
IsAdminKeyEnv(envKey, text) ==
    \/ Truthy(envKey) /\ StripQuotes(text) = <<envKey.s>>
    \/ StripQuotes(text) = <<ADMIN_SECRET>>

\* the provider's "special message" test
IsSpecial(text) ==
    \/ TextHas(text, PaidTokens)
    \/ TextHas(text, TxIds \cup HexPrefixTokens)
    \/ TextHas(text, StatusTokens)
    \/ TextHas(text, LogoutTokens)

\* ------------------------------------------------------------------------
\* Messages (Memory) and the identity resolver
\* ------------------------------------------------------------------------
UuidShaped == {"3f2a-uuid"}

Msg(id, room, text, sender, author, uid) ==
    [id |-> id, messageId |-> Undef, roomId |-> room, text |-> text,
     rawSenderId |-> sender,
     authorId |-> author, author_id |-> Undef, userId |-> uid,
     contentSourceId |-> Undef, metadataSourceId |-> Undef, entityId |-> Undef]

extractUserId(m) ==
    LET stableAuthorId == Or(m.authorId, m.author_id) IN
    IF Truthy(m.rawSenderId) /\ m.rawSenderId.t = "number"
        THEN m.rawSenderId.s
    ELSE IF /\ Truthy(stableAuthorId) /\ Truthy(m.roomId)
            /\ stableAuthorId # m.roomId
            /\ stableAuthorId.s \notin UuidShaped
        THEN stableAuthorId.s
    ELSE IF Truthy(m.roomId)
        THEN m.roomId.s
    ELSE Or(Or(m.userId, m.entityId), Str("unknown")).s

getAllUserIds(m) ==
    LET directUserId ==
            Or(m.userId, Or(m.authorId, Or(m.author_id, Or(m.contentSourceId,
               Or(m.metadataSourceId, m.rawSenderId)))))
        a == IF Truthy(directUserId) THEN <<directUserId.s>> ELSE <<>>
    IN IF Truthy(m.roomId) /\ m.roomId # directUserId
          THEN Append(a, m.roomId.s) ELSE a

\* `${roomId}:${msgId}:${text.substring(0, 50)}`; every text of the model is
\* shorter than 50 characters
getMessageKey(m) ==
    <<Or(m.roomId, Str("")).s, Or(m.id, Or(m.messageId, Str(""))).s, m.text>>

\* ------------------------------------------------------------------------
\* X402Database.  `U` is the users table: a function from the user_id of
\* every existing row to the row.  Every method is given as the table it
\* leaves (suffix Db) and, where it returns one, its value.
\* ------------------------------------------------------------------------
NoDate == -1
Today(t) == t \div DayMinutes

NewRow(t) ==
    [is_admin |-> 0, is_pro |-> 0, pro_expires_at |-> NoDate, credits |-> 0,
     daily_free_used |-> 0, daily_reset_date |-> Today(t)]

ensureUser(U, u, t) == IF u \in DOMAIN U THEN U ELSE U @@ (u :> NewRow(t))

\* the reset made on every read, whatever the stored date
checkAndResetDailyFree_Always(U, u, t) ==
    [ensureUser(U, u, t) EXCEPT ![u].daily_free_used = 0, ![u].daily_reset_date = Today(t)]

\* the reset that does not store the day it was made on
checkAndResetDailyFree_KeepDate(U, u, t) ==
    LET U1 == ensureUser(U, u, t) IN
    IF U1[u].daily_reset_date # Today(t)
        THEN [U1 EXCEPT ![u].daily_free_used = 0]
        ELSE U1

checkAndResetDailyFree(U, u, t) ==
    LET U1 == ensureUser(U, u, t) IN
    IF U1[u].daily_reset_date # Today(t)
        THEN [U1 EXCEPT ![u].daily_free_used = 0, ![u].daily_reset_date = Today(t)]
        ELSE U1

Max(a, b) == IF a >= b THEN a ELSE b

getDailyFreeRemaining(U, u, t) ==
    Max(0, FREE_DAILY_LIMIT - checkAndResetDailyFree(U, u, t)[u].daily_free_used)

consumeDailyFree(U, u, t) == getDailyFreeRemaining(U, u, t) > 0

consumeDailyFreeDb(U, u, t) ==
    LET U1 == checkAndResetDailyFree(U, u, t) IN
    IF consumeDailyFree(U, u, t)
        THEN [U1 EXCEPT ![u].daily_free_used = @ + 1]
        ELSE U1

\* the subscription read without the comparison of its expiry
isPro_NoExpiry(U, u, t) == ensureUser(U, u, t)[u].is_pro # 0

isPro(U, u, t) ==
    LET U1 == ensureUser(U, u, t) IN
    U1[u].is_pro # 0 /\ ~(U1[u].pro_expires_at < t)

isProDb(U, u, t) ==
    LET U1 == ensureUser(U, u, t) IN
    IF U1[u].is_pro # 0 /\ U1[u].pro_expires_at < t
        THEN [U1 EXCEPT ![u].is_pro = 0]
        ELSE U1

grantPro(U, u, t) ==
    [ensureUser(U, u, t) EXCEPT ![u].is_pro = 1,
        ![u].pro_expires_at = t + PRO_DURATION_DAYS * DayMinutes]

\* the flag compared with a value the column never holds
isAdmin_Never(U, u) == FALSE

isAdmin(U, u) == u \in DOMAIN U /\ U[u].is_admin = 1

setAdmin(U, u, status, t) ==
    [ensureUser(U, u, t) EXCEPT ![u].is_admin = IF status THEN 1 ELSE 0]

getCredits(U, u, t) == ensureUser(U, u, t)[u].credits

\* the increment written without the WHERE clause: every row is credited
addCredits_AllRows(U, u, amount, t) ==
    [v \in DOMAIN ensureUser(U, u, t) |->
        [ensureUser(U, u, t)[v] EXCEPT !.credits = @ + amount]]

addCredits(U, u, amount, t) == [ensureUser(U, u, t) EXCEPT ![u].credits = @ + amount]

\* the decrement made without looking at the balance
consumeCredit_NoCheck(U, u, t) == TRUE

consumeCredit(U, u, t) == getCredits(U, u, t) > 0

consumeCreditDb(U, u, t) ==
    IF consumeCredit(U, u, t)
        THEN [ensureUser(U, u, t) EXCEPT ![u].credits = @ - 1]
        ELSE ensureUser(U, u, t)

\* `P` is the payments table, a set of rows; tx_hash is UNIQUE
isPaymentUsed(P, txHash) == \E p \in P : p.tx_hash = txHash

\* a payments table whose tx_hash is not UNIQUE
recordPaymentThrows_Never(P, txHash) == FALSE

\* the INSERT of recordPayment fails (db.run throws) on a duplicate tx_hash
recordPaymentThrows(P, txHash) == isPaymentUsed(P, txHash)

recordPayment(P, txHash, u, amount, paymentType) ==
    P \cup {[tx_hash |-> txHash, user_id |-> u, amount |-> amount,
             payment_type |-> paymentType]}

\* getUserStatus: the table it leaves (ensureUser, isPro, getCredits,
\* getDailyFreeRemaining; getProExpiresAt and isAdmin only read)
getUserStatusDb(U, u, t) == checkAndResetDailyFree(isProDb(U, u, t), u, t)

\* ------------------------------------------------------------------------
\* X402Service
\* ------------------------------------------------------------------------
None == "none"

\* canAccess with the free-use rule tried before the credit rule
canAccess_FreeFirst(U, u, t) ==
    IF isAdmin(U, u) THEN [allowed |-> TRUE, reason |-> "admin", consumeType |-> None]
    ELSE IF isPro(U, u, t) THEN [allowed |-> TRUE, reason |-> "pro", consumeType |-> None]
    ELSE IF getDailyFreeRemaining(isProDb(U, u, t), u, t) > 0
        THEN [allowed |-> TRUE, reason |-> "free", consumeType |-> "free"]
    ELSE IF getCredits(isProDb(U, u, t), u, t) > 0
        THEN [allowed |-> TRUE, reason |-> "credit", consumeType |-> "credit"]
    ELSE [allowed |-> FALSE, reason |-> "no_access", consumeType |-> None]

canAccess(U, u, t) ==
    IF isAdmin(U, u) THEN [allowed |-> TRUE, reason |-> "admin", consumeType |-> None]
    ELSE IF isPro(U, u, t) THEN [allowed |-> TRUE, reason |-> "pro", consumeType |-> None]
    ELSE IF getCredits(isProDb(U, u, t), u, t) > 0
        THEN [allowed |-> TRUE, reason |-> "credit", consumeType |-> "credit"]
    ELSE IF getDailyFreeRemaining(isProDb(U, u, t), u, t) > 0
        THEN [allowed |-> TRUE, reason |-> "free", consumeType |-> "free"]
    ELSE [allowed |-> FALSE, reason |-> "no_access", consumeType |-> None]

\* the table canAccess leaves: each lookup runs only if the ones before it
\* did not return
\* a canAccess that takes the free use it reports
canAccessDb_Debit(U, u, t) == consumeDailyFreeDb(U, u, t)

\* the table canAccess leaves: isAdmin reads; isPro, getCredits and
\* getDailyFreeRemaining call ensureUser, isPro clears an expired flag and
\* getDailyFreeRemaining resets the counter of an earlier day
canAccessDb(U, u, t) ==
    IF isAdmin(U, u) THEN U
    ELSE IF isPro(U, u, t) THEN isProDb(U, u, t)
    ELSE IF getCredits(isProDb(U, u, t), u, t) > 0 THEN isProDb(U, u, t)
    ELSE checkAndResetDailyFree(isProDb(U, u, t), u, t)


\* the consumption that is not applied
consumeAccess_Skip(U, u, consumeType, t) == U

consumeAccess(U, u, consumeType, t) ==
    IF consumeType = "credit" THEN consumeCreditDb(U, u, t)
    ELSE IF consumeType = "free" THEN consumeDailyFreeDb(U, u, t)
    ELSE U

\* ------------------------------------------------------------------------
\* The chain, as the RPC client shows it.  A transaction is a record of
\* what getTransaction / getTransactionReceipt return for it.
\* ------------------------------------------------------------------------
USDC_ADDRESS == "usdc"
RECEIVER_ADDRESS == "receiver"

Transfer(to, value) == [name |-> "Transfer", to |-> to, value |-> value]

ChainTx(txHash) ==
    \* eth_getTransactionByHash decodes the hash: the digits' case does not
    \* matter to the node
    CASE LowerHex(txHash) = "0xa1" -> [status |-> 1, to |-> USDC_ADDRESS,
                             logs |-> <<Transfer(RECEIVER_ADDRESS, SINGLE_CREDIT_PRICE_RAW)>>]
      [] txHash = "0xb2" -> [status |-> 1, to |-> USDC_ADDRESS,
                             logs |-> <<Transfer("other", 7),
                                        Transfer(RECEIVER_ADDRESS, PRO_PRICE_USDC * RAW_PER_USDC)>>]
      [] txHash = "0xb7" -> [status |-> 1, to |-> USDC_ADDRESS,
                             logs |-> <<Transfer(RECEIVER_ADDRESS, (PRO_PRICE_USDC + 2) * RAW_PER_USDC)>>]
      [] txHash = "0xc3" -> [status |-> 1, to |-> USDC_ADDRESS,
                             logs |-> <<Transfer(RECEIVER_ADDRESS, SINGLE_CREDIT_PRICE_RAW \div 2)>>]
      [] txHash = "0xd4" -> [status |-> 0, to |-> USDC_ADDRESS,
                             logs |-> <<Transfer(RECEIVER_ADDRESS, SINGLE_CREDIT_PRICE_RAW)>>]
      [] txHash = "0xd5" -> [status |-> 0, to |-> "othertoken",
                             logs |-> <<Transfer("other", SINGLE_CREDIT_PRICE_RAW)>>]
      [] txHash = "0xe5" -> [status |-> 1, to |-> "othertoken",
                             logs |-> <<Transfer(RECEIVER_ADDRESS, SINGLE_CREDIT_PRICE_RAW)>>]
      [] txHash = "0xe6" -> [status |-> 1, to |-> "othertoken",
                             logs |-> <<Transfer("other", SINGLE_CREDIT_PRICE_RAW)>>]
      [] OTHER           -> [status |-> 1, to |-> USDC_ADDRESS,
                             logs |-> <<Transfer("other", SINGLE_CREDIT_PRICE_RAW)>>]

\* what one run of verifyPaymentOnChain meets: the RPC answers ("ok"), the
\* node does not know the transaction (yet), the transaction has no receipt
\* (yet), or a call throws (network error, timeout)
RpcViews == {"ok", "unknown", "noreceipt", "throws"}

\* the first Transfer log to the receiving address, or 0
RECURSIVE FirstTransferTo(_)
FirstTransferTo(logs) ==
    IF logs = <<>> THEN 0
    ELSE IF Head(logs).name = "Transfer" /\ Head(logs).to = RECEIVER_ADDRESS THEN 1
    ELSE IF FirstTransferTo(Tail(logs)) = 0 THEN 0
    ELSE 1 + FirstTransferTo(Tail(logs))

Unverified(error) == [verified |-> FALSE, amount |-> 0, isPro |-> FALSE, error |-> error]

\* the verification without the test of the receipt's status
verifyPaymentOnChain_NoStatus(txHash, view) ==
    LET tx == ChainTx(txHash)
        i == FirstTransferTo(tx.logs)
    IN
    IF view = "throws" THEN Unverified("rpc_error")
    ELSE IF view = "unknown" THEN Unverified("not_found")
    ELSE IF view = "noreceipt" THEN Unverified("tx_failed")
    ELSE IF tx.to # USDC_ADDRESS THEN Unverified("not_usdc")
    ELSE IF i # 0
        THEN [verified |-> TRUE, amount |-> tx.logs[i].value,
              isPro |-> tx.logs[i].value >= PRO_PRICE_USDC * RAW_PER_USDC,
              error |-> ""]
    ELSE Unverified("no_transfer")

\* the verification with the target contract tested before the receipt
verifyPaymentOnChain_ContractFirst(txHash, view) ==
    LET tx == ChainTx(txHash)
        i == FirstTransferTo(tx.logs)
    IN
    IF view = "throws" THEN Unverified("rpc_error")
    ELSE IF view = "unknown" THEN Unverified("not_found")
    ELSE IF tx.to # USDC_ADDRESS THEN Unverified("not_usdc")
    ELSE IF view = "noreceipt" \/ tx.status # 1 THEN Unverified("tx_failed")
    ELSE IF i # 0
        THEN [verified |-> TRUE, amount |-> tx.logs[i].value,
              isPro |-> tx.logs[i].value >= PRO_PRICE_USDC * RAW_PER_USDC,
              error |-> ""]
    ELSE Unverified("no_transfer")

\* the verification with the subscription price compared by > instead of >=
verifyPaymentOnChain_ProAbove(txHash, view) ==
    LET tx == ChainTx(txHash)
        i == FirstTransferTo(tx.logs)
    IN
    IF view = "throws" THEN Unverified("rpc_error")
    ELSE IF view = "unknown" THEN Unverified("not_found")
    ELSE IF view = "noreceipt" \/ tx.status # 1 THEN Unverified("tx_failed")
    ELSE IF tx.to # USDC_ADDRESS THEN Unverified("not_usdc")
    ELSE IF i # 0
        THEN [verified |-> TRUE, amount |-> tx.logs[i].value,
              isPro |-> tx.logs[i].value > PRO_PRICE_USDC * RAW_PER_USDC,
              error |-> ""]
    ELSE Unverified("no_transfer")

verifyPaymentOnChain(txHash, view) ==
    LET tx == ChainTx(txHash)
        i == FirstTransferTo(tx.logs)
    IN
    IF view = "throws" THEN Unverified("rpc_error")
    ELSE IF view = "unknown" THEN Unverified("not_found")
    ELSE IF view = "noreceipt" \/ tx.status # 1 THEN Unverified("tx_failed")
    ELSE IF tx.to # USDC_ADDRESS THEN Unverified("not_usdc")
    ELSE IF i # 0
        THEN [verified |-> TRUE, amount |-> tx.logs[i].value,
              isPro |-> tx.logs[i].value >= PRO_PRICE_USDC * RAW_PER_USDC,
              error |-> ""]
    ELSE Unverified("no_transfer")

\* Math.floor(amount / 0.1) in IEEE doubles: the quotient of some amounts
\* that are multiples of 0.1 falls just below the integer
\* (0.3 / 0.1 = 2.9999999999999996); these are all such amounts below
\* PRO_PRICE_USDC, in multiples of the single-credit price
\* one credit more than the amount buys
creditsToAdd_Plus(amount) == (amount \div SINGLE_CREDIT_PRICE_RAW) + 1

RoundsBelow ==
    {k * SINGLE_CREDIT_PRICE_RAW :
        k \in {3, 6, 7, 12, 14, 19, 23, 24, 28, 29, 33, 38, 41, 43, 46, 48}}
creditsToAdd(amount) ==
    (amount \div SINGLE_CREDIT_PRICE_RAW) - (IF amount \in RoundsBelow THEN 1 ELSE 0)

\* ------------------------------------------------------------------------
\* The messages of the runs
\* ------------------------------------------------------------------------
Room == Str("r1")
\* a transport with a stable author id
Alice(id, text) == Msg(Str(id), Room, text, Undef, Str("alice"), Undef)
\* a chat transport with a numeric sender id; userId is a per-message uuid
Bob(id, text) == Msg(Str(id), Room, text, Num("101"), Undef, Str("3f2a-uuid"))

\* the payment submissions of SpecPay: one transaction of every kind
PayMsgs ==
    {Alice("p1", <<"paid", tx>>) : tx \in TxIds \ {"0xA1", "0xb7", "0xd5", "0xe6"}}
    \cup {Bob("q1", <<"0xa1">>), Alice("p0", <<"paid">>)}
LoginMsgs == {Alice("k1", <<"'", ADMIN_SECRET, "'">>)}
LogoutMsgs == {Alice("k2", <<"admin logout">>)}
StatusMsgs == {Alice("s1", <<"status">>)}

\* ------------------------------------------------------------------------
\* State
\* ------------------------------------------------------------------------
VARIABLES
    users,              \* table users of the ledger
    payments,           \* table payments of the ledger
    processedMessages,  \* the de-duplication markers, by message key
    now,                \* the clock, in minutes
    ticks,              \* how many times the clock was advanced or the process restarted
    handlers,           \* the VERIFY_PAYMENT handlers waiting on the chain: how many
                        \* of each transaction hash and user
    consumed,           \* history: consumeCredit calls that returned true, by user
    freeLog,            \* history: 'free' grants of the gate, by user, on the last day with one
    debits,             \* history: debiting evaluations of a key since its marker was written
    ev,                 \* the last operation and what it returned
    ledger,             \* "no_service": the runtime has no X402Service; "open": it has
                        \* one, and the database handle of the service is open
    io,                 \* whether fs.writeFileSync of the database file succeeds
    disk,               \* the tables in the database file
    peer,               \* a second process on the same database file: its tables
    env,                \* process.env.ADMIN_API_KEY
    sweptAt             \* when the cleanup timer last fired (the process start at first)

vars == <<users, payments, processedMessages, now, ticks, handlers, consumed, freeLog, debits, ev,
          ledger, io, disk, peer, env, sweptAt>>

\* adminLoginAction.validate, and the same test in the provider and in
\* checkPaymentAction.validate, under the environment of the process
IsAdminKey(text) == IsAdminKeyEnv(env, text)

\* how many handlers are in flight
RECURSIVE Total(_)
Total(f) ==
    IF DOMAIN f = {} THEN 0
    ELSE LET k == CHOOSE x \in DOMAIN f : TRUE
         IN f[k] + Total([x \in DOMAIN f \ {k} |-> f[x]])

Ev0 == [op |-> "init", userId |-> "", key |-> <<>>, hadMarker |-> FALSE, access |-> "",
        hasAccess |-> FALSE, txHash |-> "", view |-> "", reply |-> "", ret |-> FALSE,
        msg |-> <<>>]

\* the tables of a database file, and of a process
Tables(U, P) == [users |-> U, payments |-> P]
PeerDown == [up |-> FALSE, users |-> <<>>, payments |-> {}]

\* everything but the service: empty tables in memory and in the file
Init0 ==
    /\ users = <<>>
    /\ payments = {}
    /\ processedMessages = <<>>
    /\ now = 0
    /\ ticks = 0
    /\ handlers = <<>>
    /\ consumed = <<>>
    /\ freeLog = <<>>
    /\ debits = <<>>
    /\ ev = Ev0
    /\ io = "ok"
    /\ disk = Tables(<<>>, {})
    /\ peer = PeerDown
    /\ sweptAt = 0

\* after X402Service.start: the service is registered, the handle is open
Init == Init0 /\ ledger = "open" /\ env = Undef

\* save(), called after a statement that wrote: the file becomes the tables
\* of this process, unless the write fails (the error is logged and dropped)
Durable(wrote) ==
    /\ disk' = IF wrote /\ io = "ok" THEN Tables(users', payments') ELSE disk
    /\ UNCHANGED <<ledger, env, sweptAt, io, peer>>

Count(f, k) == IF k \in DOMAIN f THEN f[k] ELSE 0
Bump(f, k) == [x \in DOMAIN f \cup {k} |-> IF x = k THEN Count(f, k) + 1 ELSE f[x]]
Drop(f, k) ==
    IF f[k] > 1 THEN [f EXCEPT ![k] = @ - 1] ELSE [x \in DOMAIN f \ {k} |-> f[x]]
Put(f, k, v) == [x \in DOMAIN f \cup {k} |-> IF x = k THEN v ELSE f[x]]

\* the 'free' grants logged for user u on the day of time t
FreeGrantsToday(L, u, t) ==
    IF u \in DOMAIN L /\ L[u].day = Today(t) THEN L[u].n ELSE 0

\* ------------------------------------------------------------------------
\* x402Provider.get: the request gate, run by one agent for message m.
\* It has no await: it runs to its end without interleaving.
\* ------------------------------------------------------------------------
Marker(u, hasAccess, isConsumed, t) ==
    [userId |-> u, hasAccess |-> hasAccess, consumed |-> isConsumed, timestamp |-> t]

NoMarker == Marker("", FALSE, FALSE, -1)

\* the marker looked up under a key that never matches
existingProcess_Miss(PM, messageKey) == NoMarker

\* processedMessages.get(messageKey)
existingProcess(PM, messageKey) ==
    IF messageKey \in DOMAIN PM THEN PM[messageKey] ELSE NoMarker

GateEv(m, had, access, hasAccess) ==
    [Ev0 EXCEPT !.op = "gate", !.userId = extractUserId(m), !.key = getMessageKey(m),
                !.hadMarker = had, !.access = access, !.hasAccess = hasAccess]

ProviderGet(m) ==
    LET userId == extractUserId(m)
        messageKey == getMessageKey(m)
        existing == existingProcess(processedMessages, messageKey)
        had == existing # NoMarker
        access == canAccess(users, userId, now)
        U1 == getUserStatusDb(canAccessDb(users, userId, now), userId, now)
        debited == \/ access.consumeType = "credit" /\ consumeCredit(U1, userId, now)
                   \/ access.consumeType = "free" /\ consumeDailyFree(U1, userId, now)
    IN
    IF ledger = "no_service" THEN
        /\ ev' = GateEv(m, FALSE, "no_service", FALSE)
        /\ UNCHANGED <<users, payments, processedMessages, now, ticks, handlers,
                       consumed, freeLog, debits>>
        /\ Durable(FALSE)
    ELSE IF IsSpecial(m.text) \/ IsAdminKey(m.text) THEN
        /\ ev' = GateEv(m, had, "bypass", TRUE)
        /\ UNCHANGED <<users, payments, processedMessages, now, ticks, handlers,
                       consumed, freeLog, debits>>
        /\ Durable(FALSE)
    ELSE IF had /\ existing.hasAccess THEN
        /\ ev' = GateEv(m, had, "shared", TRUE)
        /\ UNCHANGED <<users, payments, processedMessages, now, ticks, handlers,
                       consumed, freeLog, debits>>
        /\ Durable(FALSE)
    ELSE IF access.allowed /\ ~had THEN
        /\ users' = consumeAccess(U1, userId, access.consumeType, now)
        /\ processedMessages' =
              Put(processedMessages, messageKey,
                  Marker(userId, TRUE, access.consumeType # None, now))
        /\ consumed' = IF access.consumeType = "credit" /\ debited
                          THEN Bump(consumed, userId) ELSE consumed
        /\ freeLog' = IF access.reason = "free"
                         THEN Put(freeLog, userId,
                                  [day |-> Today(now),
                                   n |-> FreeGrantsToday(freeLog, userId, now) + 1])
                         ELSE freeLog
        /\ debits' = IF debited THEN Bump(debits, messageKey)
                     ELSE Put(debits, messageKey, Count(debits, messageKey))
        /\ ev' = GateEv(m, had, access.reason, TRUE)
        /\ UNCHANGED <<payments, now, ticks, handlers>>
        /\ Durable(users' # users)
    ELSE
        /\ users' = U1
        /\ processedMessages' =
              IF had THEN processedMessages
              ELSE Put(processedMessages, messageKey, Marker(userId, FALSE, FALSE, now))
        /\ debits' = Put(debits, messageKey, Count(debits, messageKey))
        /\ ev' = GateEv(m, had, "blocked", FALSE)
        /\ UNCHANGED <<payments, now, ticks, handlers, consumed, freeLog>>
        /\ Durable(users' # users)

\* the cleanup timer
Sweep ==
    LET keep == {k \in DOMAIN processedMessages :
                    ~(processedMessages[k].timestamp < now - WindowMinutes)}
    IN
    /\ processedMessages' = [k \in keep |-> processedMessages[k]]
    /\ debits' = [k \in keep |-> debits[k]]
    /\ ev' = [Ev0 EXCEPT !.op = "sweep"]
    /\ UNCHANGED <<users, payments, now, ticks, handlers, consumed, freeLog>>
    /\ Durable(FALSE)

\* a cleanup that deletes only the markers that recorded no consumption
cleanup_SkipConsumed(PM, t) ==
    LET keep == {k \in DOMAIN PM :
                    PM[k].consumed \/ ~(PM[k].timestamp < t - WindowMinutes)}
    IN [k \in keep |-> PM[k]]

\* the callback of setInterval: the markers left at time t
cleanup(PM, t) ==
    LET keep == {k \in DOMAIN PM : ~(PM[k].timestamp < t - WindowMinutes)}
    IN [k \in keep |-> PM[k]]

\* the cleanup timer fires when its period has elapsed
TimerFire ==
    /\ now = sweptAt + SweepPeriodMinutes
    /\ sweptAt' = now
    /\ processedMessages' = cleanup(processedMessages, now)
    /\ debits' = [k \in DOMAIN processedMessages' |-> debits[k]]
    /\ ev' = [Ev0 EXCEPT !.op = "timer"]
    /\ UNCHANGED <<users, payments, now, ticks, handlers, consumed, freeLog,
                   ledger, env, io, disk, peer>>

\* one minute passes; the timer is not overdue
ClockStep ==
    /\ now < MaxMinutes
    /\ now < sweptAt + SweepPeriodMinutes
    /\ now' = now + 1
    /\ ev' = [Ev0 EXCEPT !.op = "clock"]
    /\ UNCHANGED <<users, payments, processedMessages, ticks, handlers, consumed, freeLog,
                   debits, ledger, env, io, disk, peer, sweptAt>>

\* ------------------------------------------------------------------------
\* The clock
\* ------------------------------------------------------------------------
Tick(d) ==
    /\ ticks < MaxTicks
    /\ now' = now + d
    /\ ticks' = ticks + 1
    /\ ev' = [Ev0 EXCEPT !.op = "tick"]
    /\ UNCHANGED <<users, payments, processedMessages, handlers, consumed, freeLog, debits>>
    /\ Durable(FALSE)

\* ------------------------------------------------------------------------
\* verifyPaymentAction.handler, in two steps: up to the await on
\* verifyPaymentOnChain, and from its result to the end
\* ------------------------------------------------------------------------
PayEv(op, u, txHash, view, reply, ret) ==
    [Ev0 EXCEPT !.op = op, !.userId = u, !.view = view, !.txHash = txHash,
                !.reply = reply, !.ret = ret]

VerifyBegin(m) ==
    LET userId == extractUserId(m)
        txHash == FirstTx(m.text)
    IN
    /\ Total(handlers) < MaxHandlers
    /\ IF txHash = "" THEN
           /\ ev' = PayEv("verifyBegin", userId, txHash, "", "no_hash", FALSE)
           /\ UNCHANGED handlers
       ELSE IF isPaymentUsed(payments, txHash) THEN
           /\ ev' = PayEv("verifyBegin", userId, txHash, "", "already_used", FALSE)
           /\ UNCHANGED handlers
       ELSE
           /\ handlers' = Bump(handlers, [txHash |-> txHash, userId |-> userId])
           /\ ev' = PayEv("verifyBegin", userId, txHash, "", "", FALSE)
    /\ UNCHANGED <<users, payments, processedMessages, now, ticks, consumed, freeLog, debits>>
    /\ Durable(FALSE)

VerifyEnd(h, view) ==
    LET txHash == h.txHash
        userId == h.userId
        result == verifyPaymentOnChain(txHash, view)
        paymentType == IF result.isPro THEN "pro" ELSE "single"
    IN
    /\ h \in DOMAIN handlers
    /\ handlers' = Drop(handlers, h)
    /\ IF result.verified /\ result.amount # 0 THEN
           IF recordPaymentThrows(payments, txHash) THEN
               \* db.run throws: the handler ends by the exception
               /\ ev' = PayEv("verifyEnd", userId, txHash, view, "exception", FALSE)
               /\ UNCHANGED <<users, payments>>
           ELSE
               /\ payments' = recordPayment(payments, txHash, userId, result.amount, paymentType)
               /\ users' = IF result.isPro
                              THEN grantPro(users, userId, now)
                              ELSE addCredits(users, userId, creditsToAdd(result.amount), now)
               /\ ev' = PayEv("verifyEnd", userId, txHash, view,
                              IF result.isPro THEN "pro_granted" ELSE "credits_granted", TRUE)
       ELSE
           /\ ev' = PayEv("verifyEnd", userId, txHash, view, result.error, FALSE)
           /\ UNCHANGED <<users, payments>>
    /\ UNCHANGED <<processedMessages, now, ticks, consumed, freeLog, debits>>
    /\ Durable(users' # users \/ payments' # payments)

\* ------------------------------------------------------------------------
\* adminLoginAction.handler, adminLogoutAction.handler, statusAction.handler
\* ------------------------------------------------------------------------
RECURSIVE SetAdminAll(_, _, _, _)
SetAdminAll(U, ids, status, t) ==
    IF ids = <<>> THEN U
    ELSE SetAdminAll(setAdmin(U, Head(ids), status, t), Tail(ids), status, t)

\* validate, and the handler when validate returned true
AdminLogin(m) ==
    /\ users' = IF IsAdminKey(m.text) THEN SetAdminAll(users, getAllUserIds(m), TRUE, now)
                ELSE users
    /\ ev' = [Ev0 EXCEPT !.op = "adminLogin", !.userId = extractUserId(m),
                         !.key = getMessageKey(m), !.ret = IsAdminKey(m.text)]
    /\ UNCHANGED <<payments, processedMessages, now, ticks, handlers, consumed, freeLog, debits>>
    /\ Durable(IsAdminKey(m.text) /\ getAllUserIds(m) # <<>>)

AdminLogout(m) ==
    /\ users' = SetAdminAll(users, getAllUserIds(m), FALSE, now)
    /\ ev' = [Ev0 EXCEPT !.op = "adminLogout", !.userId = extractUserId(m),
                         !.ret = TRUE]
    /\ UNCHANGED <<payments, processedMessages, now, ticks, handlers, consumed, freeLog, debits>>
    /\ Durable(getAllUserIds(m) # <<>>)

CheckStatus(m) ==
    /\ users' = getUserStatusDb(ensureUser(users, extractUserId(m), now), extractUserId(m), now)
    /\ ev' = [Ev0 EXCEPT !.op = "status", !.userId = extractUserId(m),
                         !.ret = TRUE]
    /\ UNCHANGED <<payments, processedMessages, now, ticks, handlers, consumed, freeLog, debits>>
    /\ Durable(users' # users)

\* ------------------------------------------------------------------------
\* checkPaymentAction.validate: true when the payment prompt is to be sent
\* ------------------------------------------------------------------------
IsPaymentOrStatus(text) ==
    \/ TextHas(text, PaidTokens)
    \/ TextHas(text, TxIds \cup HexPrefixTokens)
    \/ TextHas(text, StatusTokens)

CheckPaymentValidate(m) ==
    LET userId == extractUserId(m)
        skipped == \/ ledger = "no_service"
                   \/ IsPaymentOrStatus(m.text) \/ IsAdminKey(m.text)
                   \/ (Truthy(m.roomId) /\ isAdmin(users, m.roomId.s))
    IN
    /\ users' = IF skipped THEN users
                ELSE getUserStatusDb(canAccessDb(users, userId, now), userId, now)
    /\ ev' = [Ev0 EXCEPT !.op = "checkPayment", !.userId = userId,
                         !.key = getMessageKey(m),
                         !.ret = ~skipped /\ ~canAccess(users, userId, now).allowed]
    /\ UNCHANGED <<payments, processedMessages, now, ticks, handlers, consumed, freeLog, debits>>
    /\ Durable(users' # users)

\* ------------------------------------------------------------------------
\* x402PaymentGateEvaluator.validate: true when the response is to be
\* replaced by the payment prompt
\* ------------------------------------------------------------------------
EvaluatorValidate(m) ==
    LET userId == extractUserId(m)
        skipped == ledger = "no_service" \/ IsSpecial(m.text) \/ IsAdminKey(m.text)
        access == canAccess(users, userId, now)
    IN
    /\ users' = IF skipped THEN users ELSE canAccessDb(users, userId, now)
    /\ ev' = [Ev0 EXCEPT !.op = "evaluator", !.userId = userId,
                         !.key = getMessageKey(m),
                         !.access = IF skipped THEN "skipped" ELSE access.reason,
                         !.ret = ~skipped /\ ~access.allowed]
    /\ UNCHANGED <<payments, processedMessages, now, ticks, handlers, consumed, freeLog, debits>>
    /\ Durable(users' # users)

\* ------------------------------------------------------------------------
\* X402Database.consumeCredit called on the ledger directly
\* ------------------------------------------------------------------------
Accounts == {"alice", "101"}

ConsumeCredit(u) ==
    /\ users' = consumeCreditDb(users, u, now)
    /\ consumed' = IF consumeCredit(users, u, now) THEN Bump(consumed, u) ELSE consumed
    /\ ev' = [Ev0 EXCEPT !.op = "consumeCredit", !.userId = u,
                         !.ret = consumeCredit(users, u, now)]
    /\ UNCHANGED <<payments, processedMessages, now, ticks, handlers, freeLog, debits>>
    /\ Durable(users' # users)

\* ------------------------------------------------------------------------
\* The service and the database file
\* ------------------------------------------------------------------------
\* X402Database._init: the tables are read from the file, once
Load ==
    /\ users' = disk.users
    /\ payments' = disk.payments

\* X402Service.start: the constructor, then db.init(); the service is
\* returned to the runtime when init() has completed, and not when it throws
Start(loads) ==
    /\ ledger = "no_service"
    /\ IF loads THEN Load /\ ledger' = "open"
       ELSE UNCHANGED <<users, payments, ledger>>
    /\ ev' = [Ev0 EXCEPT !.op = "start", !.ret = loads]
    /\ UNCHANGED <<processedMessages, now, ticks, handlers, consumed, freeLog, debits,
                   io, disk, peer, env, sweptAt>>

\* the volume of the database file starts or stops accepting writes
SetIo(b) ==
    /\ io # b
    /\ io' = b
    /\ ev' = [Ev0 EXCEPT !.op = "io"]
    /\ UNCHANGED <<users, payments, processedMessages, now, ticks, handlers, consumed,
                   freeLog, debits, ledger, env, sweptAt, disk, peer>>

\* the process ends and is started again: the module state is gone, the
\* tables are those of the file
Restart ==
    /\ ledger = "open"
    /\ ticks < MaxTicks
    /\ ticks' = ticks + 1
    /\ Load
    /\ processedMessages' = <<>>
    /\ handlers' = <<>>
    /\ debits' = <<>>
    /\ ev' = [Ev0 EXCEPT !.op = "restart"]
    /\ sweptAt' = now
    /\ UNCHANGED <<now, consumed, freeLog, ledger, env, io, disk, peer>>

\* ------------------------------------------------------------------------
\* A second process of the same program on the same database file.  Its
\* tables are its own sql.js database in memory, read from the file once by
\* _init; every save() of it writes the whole of them over the file.
\* ------------------------------------------------------------------------
PeerSave(wrote) ==
    disk' = IF wrote /\ io = "ok" THEN Tables(peer'.users, peer'.payments) ELSE disk

PeerStart ==
    /\ ~peer.up
    /\ peer' = [up |-> TRUE, users |-> disk.users, payments |-> disk.payments]
    /\ ev' = [Ev0 EXCEPT !.op = "peerStart"]
    /\ UNCHANGED <<users, payments, processedMessages, now, ticks, handlers, consumed,
                   freeLog, debits, ledger, env, sweptAt, io, disk>>

\* db.consumeCredit(u) in the second process
PeerConsumeCredit(u) ==
    /\ peer.up
    /\ peer' = [peer EXCEPT !.users = consumeCreditDb(peer.users, u, now)]
    /\ consumed' = IF consumeCredit(peer.users, u, now) THEN Bump(consumed, u) ELSE consumed
    /\ ev' = [Ev0 EXCEPT !.op = "peerConsumeCredit", !.userId = u,
                         !.ret = consumeCredit(peer.users, u, now)]
    /\ PeerSave(peer'.users # peer.users)
    /\ UNCHANGED <<users, payments, processedMessages, now, ticks, handlers, freeLog,
                   debits, ledger, env, sweptAt, io>>

\* verifyPaymentAction.handler in the second process, the chain answering
\* with the confirmed transaction
PeerRedeem(m) ==
    LET userId == extractUserId(m)
        txHash == FirstTx(m.text)
        result == verifyPaymentOnChain(txHash, "ok")
        paymentType == IF result.isPro THEN "pro" ELSE "single"
    IN
    /\ peer.up
    /\ IF txHash = "" THEN
           /\ ev' = PayEv("peerRedeem", userId, txHash, "", "no_hash", FALSE)
           /\ UNCHANGED peer
       ELSE IF isPaymentUsed(peer.payments, txHash) THEN
           /\ ev' = PayEv("peerRedeem", userId, txHash, "", "already_used", FALSE)
           /\ UNCHANGED peer
       ELSE IF result.verified /\ result.amount # 0 THEN
           /\ peer' = [peer EXCEPT
                          !.payments = recordPayment(peer.payments, txHash, userId,
                                                     result.amount, paymentType),
                          !.users = IF result.isPro
                                       THEN grantPro(peer.users, userId, now)
                                       ELSE addCredits(peer.users, userId,
                                                       creditsToAdd(result.amount), now)]
           /\ ev' = PayEv("peerRedeem", userId, txHash, "ok",
                          IF result.isPro THEN "pro_granted" ELSE "credits_granted", TRUE)
       ELSE
           /\ ev' = PayEv("peerRedeem", userId, txHash, "ok", result.error, FALSE)
           /\ UNCHANGED peer
    /\ PeerSave(peer' # peer)
    /\ UNCHANGED <<users, payments, processedMessages, now, ticks, handlers, consumed,
                   freeLog, debits, ledger, env, sweptAt, io>>

\* ------------------------------------------------------------------------
\* Specifications.  Each runs the same handlers over the messages and the
\* clock steps of one scenario.
\* ------------------------------------------------------------------------
AlicePays == {Alice("p1", <<"paid", tx>>) : tx \in {"0xa1", "0xb2"}}

\* one payment submission at a time
SubmitAlone(m) == Total(handlers) = 0 /\ VerifyBegin(m)

\* Spec: two messages of one user within the marker window and after it
Next ==
    \/ \E m \in {Alice("m1", <<"hello">>), Alice("m2", <<"hello">>)} \cup LoginMsgs :
          ProviderGet(m)
    \/ Sweep
    \/ Tick(WindowMinutes + 1)
    \/ \E m \in AlicePays : SubmitAlone(m)
    \/ \E h \in DOMAIN handlers : VerifyEnd(h, "ok")
    \/ \E m \in LoginMsgs : AdminLogin(m)
    \/ \E m \in LogoutMsgs : AdminLogout(m)
    \/ \E m \in StatusMsgs : CheckStatus(m)
    \/ ConsumeCredit("alice")

Spec == Init /\ [][Next]_vars

\* SpecDays: one message of one user over days and over a subscription
NextDays ==
    \/ ProviderGet(Alice("m1", <<"hello">>))
    \/ Sweep
    \/ \E d \in {DayMinutes, PRO_DURATION_DAYS * DayMinutes} : Tick(d)
    \/ \E m \in AlicePays : SubmitAlone(m)
    \/ \E h \in DOMAIN handlers : VerifyEnd(h, "ok")
    \/ \E m \in LoginMsgs : AdminLogin(m)
    \/ \E m \in LogoutMsgs : AdminLogout(m)
    \/ \E m \in StatusMsgs : CheckStatus(m)

SpecDays == Init /\ [][NextDays]_vars

\* SpecFree: more messages than the daily free limit, over days
NextFree ==
    \/ \E m \in {Alice(id, <<"hello">>) : id \in {"m1", "m2", "m3", "m4"}} : ProviderGet(m)
    \/ Sweep
    \/ \E d \in {WindowMinutes + 1, DayMinutes} : Tick(d)
    \/ SubmitAlone(Alice("p1", <<"paid", "0xa1">>))
    \/ \E h \in DOMAIN handlers : VerifyEnd(h, "ok")

SpecFree == Init /\ [][NextFree]_vars

\* SpecIdentity: admin login and logout by messages of a room with every
\* combination of sender id, author id, userId and entityId
IdMsg(sender, author, uid, room, entity, text) ==
    [Msg(Str("i1"), room, text, sender, author, uid) EXCEPT !.entityId = entity]
IdentityMsgs(text) ==
    {IdMsg(sender, author, uid, room, entity, text) :
        sender \in {Undef, Num("101")},
        author \in {Undef, Str("alice"), Str("3f2a-uuid")},
        uid \in {Undef, Str("u1")},
        room \in {Room},
        entity \in {Undef, Str("e1")}}

NextIdentity ==
    \/ \E m \in IdentityMsgs(<<ADMIN_SECRET>>) : AdminLogin(m)
    \/ \E m \in IdentityMsgs(<<"admin logout">>) : AdminLogout(m)

SpecIdentity == Init /\ [][NextIdentity]_vars

\* SpecRoom: an admin logs in and out in a room where another sender writes
BobAsks == {Bob(id, <<"hi">>) : id \in {"n1", "n2", "n3", "n4"}}

NextRoom ==
    \/ \E m \in BobAsks \cup {Alice("m1", <<"hello">>)} : ProviderGet(m)
    \/ CheckPaymentValidate(Bob("n1", <<"hi">>))
    \/ \E m \in LoginMsgs : AdminLogin(m)
    \/ \E m \in LogoutMsgs : AdminLogout(m)

SpecRoom == Init /\ [][NextRoom]_vars

\* SpecSub: single-credit and subscription payments of one user, interleaved,
\* with admin login and logout
SubPays == {Alice("p1", <<"paid", tx>>) : tx \in {"0xa1", "0xb2", "0xb7"}}

NextSub ==
    \/ ProviderGet(Alice("m1", <<"hello">>))
    \/ \E m \in SubPays : VerifyBegin(m)
    \/ \E h \in DOMAIN handlers, view \in {"ok", "throws"} : VerifyEnd(h, view)
    \/ \E m \in LoginMsgs : AdminLogin(m)
    \/ \E m \in LogoutMsgs : AdminLogout(m)

SpecSub == Init /\ [][NextSub]_vars

\* SpecScenario: six distinct messages of a fresh user on one day and one
\* single-credit payment
AliceAsks == {Alice(id, <<"hello">>) : id \in {"c1", "c2", "c3", "c4", "c5", "c6"}}

NextScenario ==
    \/ \E m \in AliceAsks : ProviderGet(m)
    \/ SubmitAlone(Alice("p1", <<"paid", "0xa1">>))
    \/ \E h \in DOMAIN handlers : VerifyEnd(h, "ok")

SpecScenario == Init /\ [][NextScenario]_vars

\* the service coming up while messages arrive, on a volume that may refuse
\* writes
InitBoot == Init0 /\ ledger = "no_service" /\ env = Undef

BootAsks == {Alice(k, <<"hello">>) : k \in {"m1", "m2", "m3", "m4"}}

NextBoot ==
    \/ \E loads \in BOOLEAN : Start(loads)
    \/ \E b \in {"ok", "fails"} : SetIo(b)
    \/ \E m \in BootAsks : ProviderGet(m)

SpecBoot == InitBoot /\ [][NextBoot]_vars

\* SpecStore: one user paying, asking and spending on a volume that may
\* refuse writes, in a process that may be restarted
NextStore ==
    \/ \E b \in {"ok", "fails"} : SetIo(b)
    \/ \E m \in AlicePays : SubmitAlone(m)
    \/ \E h \in DOMAIN handlers : VerifyEnd(h, "ok")
    \/ ConsumeCredit("alice")
    \/ ProviderGet(Alice("m1", <<"hello">>))
    \/ Restart

SpecStore == Init /\ [][NextStore]_vars

\* SpecShared: two processes on one database file, one user paying and
\* spending through either
NextShared ==
    \/ \E m \in AlicePays : SubmitAlone(m)
    \/ \E h \in DOMAIN handlers : VerifyEnd(h, "ok")
    \/ ConsumeCredit("alice")
    \/ PeerStart
    \/ PeerConsumeCredit("alice")
    \/ \E m \in AlicePays : PeerRedeem(m)

SpecShared == Init /\ [][NextShared]_vars

\* SpecResolve: extractUserId applied to one message, over every combination
\* of present and absent identity fields
ResolveMsgs ==
    {[IdMsg(sender, author, uid, room, entity, <<"hello">>) EXCEPT !.author_id = author2] :
        sender \in {Undef, Num("101"), Str("tg7")},
        author \in {Undef, Str("alice"), Str("3f2a-uuid"), Str("r1")},
        author2 \in {Undef, Str("bob")},
        uid \in {Undef, Str("u1")},
        room \in {Undef, Room},
        entity \in {Undef, Str("e1")}}

\* extractUserId(message); the message is the input of the run
Resolve(m) ==
    /\ ev.op = "init"
    /\ ev' = [Ev0 EXCEPT !.op = "extractUserId", !.msg = m, !.userId = extractUserId(m)]
    /\ UNCHANGED <<users, payments, processedMessages, now, ticks, handlers, consumed,
                   freeLog, debits, ledger, env, sweptAt, io, disk, peer>>

NextResolve == \E m \in ResolveMsgs : Resolve(m)

SpecResolve == Init /\ [][NextResolve]_vars

\* SpecBypass: questions of one user, plain and carrying one of the words the
\* provider skips on
PlainAsks == {Alice(id, <<"hello">>) : id \in {"k1", "k2", "k3", "k4"}}
WordAsks ==
    {Alice("w1", text) :
        text \in {<<"status", "hello">>, <<"0x12", "hello">>,
                  <<"paid">>, <<"paid", "0xa1">>, <<"'", ADMIN_SECRET, "'">>}}

NextBypass ==
    \/ \E m \in PlainAsks \cup WordAsks : ProviderGet(m)
    \/ Tick(DayMinutes)

SpecBypass == Init /\ [][NextBypass]_vars

\* SpecLogin: texts that are, hold or are not an admin key, in a process
\* started with and without ADMIN_API_KEY
ENV_KEY == "key-from-env"
KeyTexts ==
    {<<ADMIN_SECRET>>, <<"'", ADMIN_SECRET, "'">>, <<ENV_KEY>>, <<"'", ENV_KEY, "'">>,
     <<ADMIN_SECRET, "hello">>, <<"hello">>}
KeyMsgs == {Alice("a1", text) : text \in KeyTexts} \cup {Bob("b1", text) : text \in KeyTexts}

InitLogin == Init0 /\ ledger = "open" /\ env \in {Undef, Str(ENV_KEY)}

NextLogin ==
    \/ \E m \in KeyMsgs : AdminLogin(m)
    \/ \E text \in {<<ENV_KEY>>, <<"hello">>} : ProviderGet(Alice("a1", text))
    \/ \E m \in LogoutMsgs : AdminLogout(m)

SpecLogin == InitLogin /\ [][NextLogin]_vars

\* SpecValidate: the provider and the two validate functions on the messages
\* of one user, over days and over a subscription
ValidateAsks == {Alice(id, <<"hello">>) : id \in {"v1", "v2", "v3"}}

NextValidate ==
    \/ \E m \in ValidateAsks : ProviderGet(m)
    \/ \E m \in ValidateAsks : EvaluatorValidate(m)
    \/ \E m \in ValidateAsks : CheckPaymentValidate(m)
    \/ \E d \in {DayMinutes, PRO_DURATION_DAYS * DayMinutes} : Tick(d)
    \/ SubmitAlone(Alice("p1", <<"paid", "0xb2">>))
    \/ \E h \in DOMAIN handlers : VerifyEnd(h, "ok")

SpecValidate == Init /\ [][NextValidate]_vars

\* SpecVerify: one user submitting each transaction of the chain, under
\* every answer of the RPC endpoint
VerifyAsks == {Alice("p1", <<"paid", tx>>) : tx \in TxIds \ {"0xA1"}}

NextVerify ==
    \/ \E m \in VerifyAsks : SubmitAlone(m)
    \/ \E h \in DOMAIN handlers, view \in RpcViews : VerifyEnd(h, view)

SpecVerify == Init /\ [][NextVerify]_vars

\* SpecTimer: the messages of one user, before and after an admin login,
\* while the minutes pass and the cleanup timer fires
TimerAsks == {Alice(id, <<"hello">>) : id \in {"t1", "t2"}}

NextTimer ==
    \/ \E m \in TimerAsks : ProviderGet(m)
    \/ \E m \in LoginMsgs : AdminLogin(m)
    \/ ClockStep
    \/ TimerFire

SpecTimer == Init /\ [][NextTimer]_vars /\ WF_vars(ClockStep) /\ WF_vars(TimerFire)

\* SpecKeys: two senders in one room saying the same words, in messages that
\* carry an id of their own and in messages without id and messageId
NoId(m) == [m EXCEPT !.id = Undef]
KeyAsks ==
    {Alice(id, <<"hello">>) : id \in {"g1", "g2"}}
    \cup {Bob(id, <<"hello">>) : id \in {"h1", "h2"}}
    \cup {NoId(Alice("", <<"hello">>)), NoId(Bob("", <<"hello">>))}

NextKeys == \E m \in KeyAsks : ProviderGet(m)

SpecKeys == Init /\ [][NextKeys]_vars

\* SpecCase: one user submitting the hash of one transaction in lower-case
\* and in upper-case hex digits, the node answering or failing
CasePays == {Alice("p1", <<"paid", "0xa1">>), Alice("p2", <<"paid", "0xA1">>)}

NextCase ==
    \/ \E m \in CasePays : VerifyBegin(m)
    \/ \E h \in DOMAIN handlers, view \in {"ok", "throws"} : VerifyEnd(h, view)
    \/ ProviderGet(Alice("m1", <<"hello">>))
    \/ ConsumeCredit("alice")

SpecCase == Init /\ [][NextCase]_vars

\* SpecGrant: two users submitting a single-credit transfer, a subscription
\* transfer and a failed transaction, between access checks, status queries,
\* admin login and logout
GrantPays ==
    {Alice("p1", <<"paid", "0xa1">>), Bob("q1", <<"0xa1">>),
     Bob("q2", <<"0xb7">>), Alice("p4", <<"paid", "0xd4">>)}

NextGrant ==
    \/ \E m \in {Alice("m1", <<"hello">>), Bob("n1", <<"hi">>)} : ProviderGet(m)
    \/ \E m \in GrantPays : VerifyBegin(m)
    \/ \E h \in DOMAIN handlers, view \in {"ok", "throws"} : VerifyEnd(h, view)
    \/ \E m \in LoginMsgs : AdminLogin(m)
    \/ \E m \in LogoutMsgs : AdminLogout(m)
    \/ \E m \in StatusMsgs : CheckStatus(m)

SpecGrant == Init /\ [][NextGrant]_vars

\* SpecPay: payment submissions of two users, interleaved at the await
NextPay ==
    \/ \E m \in {Alice("m1", <<"hello">>), Bob("n1", <<"hi">>)} : ProviderGet(m)
    \/ \E m \in PayMsgs : VerifyBegin(m)
    \/ \E h \in DOMAIN handlers, view \in RpcViews : VerifyEnd(h, view)
    \/ \E u \in Accounts : ConsumeCredit(u)

SpecPay == Init /\ [][NextPay]_vars


\* ------------------------------------------------------------------------
\* The account as the specification reads it, without side effects
\* ------------------------------------------------------------------------
AdminFlag(U, u) == u \in DOMAIN U /\ U[u].is_admin = 1
SubscriptionValid(U, u, t) ==
    u \in DOMAIN U /\ U[u].is_pro = 1 /\ U[u].pro_expires_at >= t
CreditBalance(U, u) == IF u \in DOMAIN U THEN U[u].credits ELSE 0
FreeUsesToday(U, u, t) ==
    IF u \in DOMAIN U /\ U[u].daily_reset_date = Today(t) THEN U[u].daily_free_used ELSE 0
KnownKeys == DOMAIN users \cup Accounts \cup {"nobody"}

Verdict(allowed, reason, consumeType) ==
    [allowed |-> allowed, reason |-> reason, consumeType |-> consumeType]

RECURSIVE SumCredits(_)
SumCredits(P) ==
    IF P = {} THEN 0
    ELSE LET p == CHOOSE x \in P : TRUE
         IN creditsToAdd(p.amount) + SumCredits(P \ {p})
GrantedCredits(P, u) ==
    SumCredits({p \in P : p.user_id = u /\ p.payment_type = "single"})

\* the payment log holds at most one row for a txId; every account's
\* credits, spent or not, are those of its recorded single-credit payments,
\* and an account is subscribed exactly when a subscription payment is
\* recorded for it
C2_LedgerInv ==
    /\ \A p, q \in payments : p.tx_hash = q.tx_hash => p = q
    /\ \A u \in KnownKeys :
          /\ CreditBalance(users, u) + Count(consumed, u) = GrantedCredits(payments, u)
          /\ (u \in DOMAIN users /\ users[u].is_pro = 1)
                <=> (\E p \in payments : p.user_id = u /\ p.payment_type = "pro")

\* a handler that redeems (addCredits or grantPro, reported as success) does
\* so for a txId without row and adds the one row of it; a handler that does
\* not redeem leaves the accounts and the payment log as they were
C2_RedeemStep ==
    ev'.op \in {"verifyBegin", "verifyEnd"} =>
        IF ev'.ret
            THEN /\ ~isPaymentUsed(payments, ev'.txHash)
                 /\ \E p \in payments' :
                       p.tx_hash = ev'.txHash /\ payments' = payments \cup {p}
            ELSE users' = users /\ payments' = payments

\* C2: however often and in whatever interleaving at the await a txId is
\* submitted, the payment log holds exactly one row for it once it is
\* redeemed, and its benefit (one addCredits or one grantPro) is applied
\* exactly once, in the step that adds the row.
C2_RedeemedOnce == [](C2_LedgerInv) /\ [][C2_RedeemStep]_vars

\* two handlers raced on 0xa1: one redeemed it, the INSERT of the other failed
C2_Witness ==
    /\ ev.op = "verifyEnd" /\ ev.txHash = "0xa1" /\ ev.reply = "exception"
    /\ \E p \in payments : p.tx_hash = "0xa1"

\* the markers and the debits they stand for
C3_MarkerInv ==
    \A k \in DOMAIN processedMessages :
        /\ Count(debits, k) <= 1
        /\ processedMessages[k].consumed <=> Count(debits, k) = 1
        /\ processedMessages[k].consumed => processedMessages[k].hasAccess

\* a gate evaluation that finds the marker of its message
C3_LaterStep ==
    (ev'.op = "gate" /\ ev'.hadMarker /\ ev'.access # "bypass") =>
        /\ \A u \in DOMAIN users :
              /\ users'[u].credits = users[u].credits
              /\ FreeUsesToday(users', u, now) <= FreeUsesToday(users, u, now)
        /\ processedMessages' = processedMessages
        /\ processedMessages[ev'.key].hasAccess => ev'.access = "shared"
        /\ ~processedMessages[ev'.key].hasAccess => ev'.access = "blocked"

\* C3: while the marker of a message is in the map, at most one evaluation
\* of the message debits the ledger: a marker with consumed = true stands
\* for exactly one debit, and an evaluation that finds the marker debits
\* nothing and is answered 'shared' when the marker granted access.
C3_AtMostOneDebit == [](C3_MarkerInv) /\ [][C3_LaterStep]_vars

\* the only credit of alice paid for the first evaluation of a message, a
\* later evaluation was shared, and the balance is 0
C3_Witness ==
    /\ ev.op = "gate" /\ ev.access = "shared"
    /\ ev.key \in DOMAIN processedMessages /\ processedMessages[ev.key].consumed
    /\ GrantedCredits(payments, "alice") = 1 /\ Count(consumed, "alice") = 1
    /\ CreditBalance(users, "alice") = 0

\* C4: no credit balance is ever negative; consumeCredit returns false only
\* on a zero balance, and the calls that returned true never outnumber the
\* credits granted, so of the callers contending for one credit one succeeds.
C4_NeverNegative ==
    /\ \A u \in KnownKeys :
          /\ CreditBalance(users, u) >= 0
          /\ Count(consumed, u) <= GrantedCredits(payments, u)
    /\ (ev.op = "consumeCredit" /\ ~ev.ret) => CreditBalance(users, ev.userId) = 0

\* a balance of 1 was contended: one call returned true, the last one false
C4_Witness ==
    /\ ev.op = "consumeCredit" /\ ~ev.ret
    /\ GrantedCredits(payments, ev.userId) = 1 /\ Count(consumed, ev.userId) = 1

\* the free uses and free grants of a day are within the limit
C5_LimitInv ==
    /\ \A u \in DOMAIN users : users[u].daily_free_used <= FREE_DAILY_LIMIT
    /\ \A u \in DOMAIN freeLog : freeLog[u].n <= FREE_DAILY_LIMIT

\* a gate evaluation of a new message of a user who has only the free tier
C5_GateStep ==
    LET u == ev'.userId IN
    (/\ ev'.op = "gate" /\ ~ev'.hadMarker /\ ev'.access # "bypass"
     /\ ~AdminFlag(users, u) /\ ~SubscriptionValid(users, u, now)
     /\ CreditBalance(users, u) = 0) =>
        IF FreeGrantsToday(freeLog, u, now) < FREE_DAILY_LIMIT
            THEN /\ ev'.access = "free"
                 /\ FreeUsesToday(users', u, now) = FreeUsesToday(users, u, now) + 1
            ELSE /\ ev'.access = "blocked"
                 /\ FreeUsesToday(users', u, now) = FreeUsesToday(users, u, now)

\* C5: a user without admin flag, subscription or credits is granted 'free'
\* by the gate for a message without marker while fewer than
\* FREE_DAILY_LIMIT free grants were made to the user that day, and is denied
\* from then on; neither the grants of a day nor freeUsesToday exceed the limit.
C5_FreeLimit == [](C5_LimitInv) /\ [][C5_GateStep]_vars

\* the fourth message of the day of a user without credits was denied
C5_Witness ==
    /\ ev.op = "gate" /\ ev.access = "blocked" /\ ~ev.hadMarker
    /\ FreeGrantsToday(freeLog, ev.userId, now) = FREE_DAILY_LIMIT
    /\ CreditBalance(users, ev.userId) = 0

\* the amount of the transfer that verifyPaymentOnChain decodes for txHash
DecodedAmount(txHash) ==
    LET tx == ChainTx(txHash) IN
    IF FirstTransferTo(tx.logs) = 0 THEN 0 ELSE tx.logs[FirstTransferTo(tx.logs)].value

\* C6: a transaction whose transfer to the receiving address is below the
\* single-credit price is never reported as a confirmed payment, and no
\* payment record is created for it.
C6_BelowPriceRejected ==
    /\ \A p \in payments : p.amount >= SINGLE_CREDIT_PRICE_RAW
    /\ (ev.op = "verifyEnd" /\ DecodedAmount(ev.txHash) < SINGLE_CREDIT_PRICE_RAW) => ~ev.ret

\* what the chain holds for txHash: a successful call of the token contract
\* with a transfer to the receiving address
ChainConfirms(txHash) ==
    LET tx == ChainTx(txHash) IN
    /\ tx.status = 1 /\ tx.to = USDC_ADDRESS
    /\ \E i \in 1..Len(tx.logs) :
          tx.logs[i].name = "Transfer" /\ tx.logs[i].to = RECEIVER_ADDRESS

FailureReplies == {"rpc_error", "not_found", "tx_failed", "not_usdc", "no_transfer"}

\* a handler whose verification did not succeed reports a failure
C7_FailureInv ==
    /\ \A p \in payments : ChainConfirms(p.tx_hash)
    /\ (ev.op = "verifyEnd" /\ (ev.view # "ok" \/ ~ChainConfirms(ev.txHash))) =>
          ~ev.ret /\ ev.reply \in FailureReplies

\* the step of a handler whose verification did not succeed
C7_FailureStep ==
    (ev'.op = "verifyEnd" /\ (ev'.view # "ok" \/ ~ChainConfirms(ev'.txHash))) =>
        users' = users /\ payments' = payments

\* C7: when the chain verification of a handler does not succeed (the RPC
\* fails or does not show the transaction or its receipt, or the chain does
\* not hold a successful transfer to the receiving address), the handler
\* reports a failure and leaves the accounts and the payment log as they
\* were; every payment record is of a transaction the chain confirms.
C7_FailedVerificationNoOp == [](C7_FailureInv) /\ [][C7_FailureStep]_vars

\* the verification of 0xa1 met an RPC error: the handler reported it and
\* the accounts and the payment log are still empty
C7_Witness ==
    /\ ev.op = "verifyEnd" /\ ev.txHash = "0xa1" /\ ev.view = "throws"
    /\ ev.reply = "rpc_error" /\ payments = {} /\ users = <<>>

\* a handler that ends without redeeming, for a txId that has a payment
\* record and whose chain verification succeeded or was not reached, answers
\* 'already used'
C8_ReplyInv ==
    (/\ ev.op \in {"verifyBegin", "verifyEnd"} /\ ev.txHash # ""
     /\ ~ev.ret /\ ev.reply # "" /\ ev.view \in {"", "ok"}
     /\ isPaymentUsed(payments, ev.txHash)) => ev.reply = "already_used"

\* a handler step for a txId that has a payment record changes neither the
\* accounts nor the payment log
C8_NoOpStep ==
    (ev'.op \in {"verifyBegin", "verifyEnd"} /\ isPaymentUsed(payments, ev'.txHash)) =>
        users' = users /\ payments' = payments

\* C8: every submission of a txId that already has a payment record, also
\* one that is recorded while the handler waits on the chain, is answered
\* 'already used' and changes nothing in the ledger.
C8_AlreadyUsedAnswered == [](C8_ReplyInv) /\ [][C8_NoOpStep]_vars

\* canAccess allows every key whose admin flag is set, with no consumeType
C9_AdminVerdict ==
    \A u \in KnownKeys :
        AdminFlag(users, u) => canAccess(users, u, now) = Verdict(TRUE, "admin", None)

\* a gate evaluation leaves the stored counters of an admin as they were
C9_AsClaimedStep ==
    LET u == ev'.userId IN
    (ev'.op = "gate" /\ AdminFlag(users, u)) =>
        /\ users'[u].credits = users[u].credits
        /\ users'[u].daily_free_used = users[u].daily_free_used

\* C9, as claimed: while the admin flag of a user key is set, canAccess
\* allows the key with no consumeType and a gate evaluation changes neither
\* the credits nor the stored free-use counter of the account.
C9_AsClaimed == [](C9_AdminVerdict) /\ [][C9_AsClaimedStep]_vars

\* a gate evaluation of an admin consumes nothing; the stored free-use
\* counter changes only by the reset of a new calendar day
C9_AmendedStep ==
    LET u == ev'.userId IN
    (ev'.op = "gate" /\ AdminFlag(users, u)) =>
        /\ users'[u].credits = users[u].credits
        /\ \/ users'[u].daily_free_used = users[u].daily_free_used
           \/ /\ users'[u].daily_free_used = 0
              /\ users[u].daily_reset_date # Today(now)
        /\ FreeUsesToday(users', u, now) = FreeUsesToday(users, u, now)
        /\ ev'.access \notin {"credit", "free"}

\* C9, amended: while the admin flag of a user key is set, canAccess allows
\* the key with no consumeType, and a gate evaluation does not change the
\* credits and consumes no free use; the stored free-use counter changes
\* only by the reset to zero that a read on a new calendar day makes.
C9_AdminNoConsumption == [](C9_AdminVerdict) /\ [][C9_AmendedStep]_vars

\* an admin who had used free uses the day before was gated as admin
C9_Witness ==
    /\ ev.op = "gate" /\ ev.access = "admin" /\ AdminFlag(users, "alice")
    /\ "alice" \in DOMAIN freeLog /\ freeLog["alice"].day < Today(now)
    /\ users["alice"].daily_reset_date = Today(now)

\* C10: after ADMIN_LOGIN has handled a message, the account keyed by
\* extractUserId of the message has the admin flag.
C10_ResolvedKeyIsAdmin ==
    ev.op = "adminLogin" => AdminFlag(users, ev.userId)

\* a gate evaluation of an ordinary message of a room whose admin flag is set
C11_RoomStep ==
    LET u == ev'.userId IN
    (/\ ev'.op = "gate" /\ ev'.access # "bypass"
     /\ AdminFlag(users, ev'.key[1])) =>
        /\ ev'.hasAccess
        /\ CreditBalance(users', u) = CreditBalance(users, u)
        /\ FreeUsesToday(users', u, now) = FreeUsesToday(users, u, now)

\* C11: from an admin login in a room until the admin logout (the room's
\* admin flag is set), every ordinary message of the room, from any sender,
\* is answered hasAccess by x402Provider.get and consumes neither a credit
\* nor a free use of the sender.
C11_RoomAdminBypass == [][C11_RoomStep]_vars

\* the verdict of a user who is neither admin nor subscribed
FallThrough(U, u, t) ==
    IF CreditBalance(U, u) > 0 THEN Verdict(TRUE, "credit", "credit")
    ELSE IF FreeUsesToday(U, u, t) < FREE_DAILY_LIMIT THEN Verdict(TRUE, "free", "free")
    ELSE Verdict(FALSE, "no_access", None)

\* the verdict of a user with a valid subscription: nothing is consumed
Subscribed(U, u) ==
    IF AdminFlag(U, u) THEN Verdict(TRUE, "admin", None) ELSE Verdict(TRUE, "pro", None)

\* up to the stored expiry the subscription reads valid and the access check
\* is allowed with nothing consumed; after it the subscription reads invalid
\* and the access check of a user without admin flag falls through
C12_ValidityInv ==
    \A u \in DOMAIN users :
        users[u].is_pro = 1 =>
            IF now <= users[u].pro_expires_at
                THEN /\ isPro(users, u, now)
                     /\ canAccess(users, u, now) = Subscribed(users, u)
                ELSE /\ ~isPro(users, u, now)
                     /\ ~AdminFlag(users, u) =>
                            canAccess(users, u, now) = FallThrough(users, u, now)

\* a subscription is granted for PRO_DURATION_DAYS from the time of the
\* grant, and a read after the expiry clears it; no other step ends it
C12_Step ==
    \A u \in DOMAIN users' :
        /\ (ev'.op = "verifyEnd" /\ ev'.reply = "pro_granted" /\ ev'.userId = u) =>
              /\ users'[u].is_pro = 1
              /\ users'[u].pro_expires_at = now + PRO_DURATION_DAYS * DayMinutes
        /\ (u \in DOMAIN users /\ users[u].is_pro = 1 /\ users'[u].is_pro = 0) =>
              now > users[u].pro_expires_at
        /\ (/\ u \in DOMAIN users /\ users[u].is_pro = 1 /\ now > users[u].pro_expires_at
            /\ ev'.userId = u
            /\ \/ ev'.op = "status"
               \/ ev'.op = "gate" /\ ev'.access \notin {"bypass", "shared"}) =>
              users'[u].is_pro = 0

\* C12: a subscription granted at time t is valid for PRO_DURATION_DAYS
\* days: every access check up to t + D is allowed as subscription with
\* nothing consumed (as admin for an admin), and every access check after
\* t + D reads the subscription as invalid and falls through to the credit,
\* free-use and deny rules, with no revoke call.
C12_SubscriptionExpires == [](C12_ValidityInv) /\ [][C12_Step]_vars

\* after the subscription of alice had run out she was gated on a free use
C12_Witness ==
    /\ ev.op = "gate" /\ ev.access = "free" /\ ev.userId = "alice"
    /\ \E p \in payments : p.user_id = "alice" /\ p.payment_type = "pro"
    /\ users["alice"].is_pro = 0

\* a payment is recorded as 'pro' exactly when its amount is at least the
\* subscription price
C13_KindInv ==
    \A p \in payments :
        p.payment_type = "pro" <=> p.amount >= PRO_PRICE_USDC * RAW_PER_USDC

\* the step of a handler whose verification succeeded for a transfer of at
\* least the subscription price
C13_Step ==
    LET u == ev'.userId
        tx == ev'.txHash IN
    (/\ ev'.op = "verifyEnd" /\ ev'.view = "ok" /\ ChainConfirms(tx)
     /\ DecodedAmount(tx) >= PRO_PRICE_USDC * RAW_PER_USDC
     /\ ~isPaymentUsed(payments, tx)) =>
        /\ ev'.ret
        /\ payments' = payments \cup {[tx_hash |-> tx, user_id |-> u,
                                        amount |-> DecodedAmount(tx), payment_type |-> "pro"]}
        /\ CreditBalance(users', u) = CreditBalance(users, u)
        /\ isPro(users', u, now)
        /\ canAccess(users', u, now) = Subscribed(users', u)

\* C13: a verified payment of at least the subscription price is recorded
\* with kind 'pro' and grants a subscription and no credits: the credit
\* balance is unchanged and the next access check of the submitting user
\* is allowed as subscription.
C13_ProPayment == [](C13_KindInv) /\ [][C13_Step]_vars

\* a user who holds a credit redeemed a transfer above the subscription price
C13_Witness ==
    /\ ev.op = "verifyEnd" /\ ev.txHash = "0xb7" /\ ev.reply = "pro_granted"
    /\ CreditBalance(users, ev.userId) > 0

\* the handler of the step read the free-use counter of user u
ReadsFreeUses(e, u) ==
    /\ e.userId = u
    /\ \/ e.op = "status"
       \/ e.op = "gate" /\ e.access \notin {"bypass", "shared"}

\* one step, for the account of every user: on the day stored in
\* daily_reset_date nothing resets the counter; on a later day the counter
\* and the date stay as they are until a read, and a read sets the counter
\* to zero (plus the free use the same handler consumes) and stores the day
C14_Step ==
    \A u \in DOMAIN users :
        LET a == users[u]
            b == users'[u]
        IN
        IF a.daily_reset_date = Today(now)
            THEN /\ b.daily_reset_date = a.daily_reset_date
                 /\ b.daily_free_used >= a.daily_free_used
            ELSE IF ReadsFreeUses(ev', u)
                THEN /\ b.daily_reset_date = Today(now)
                     /\ b.daily_free_used = IF ev'.access = "free" THEN 1 ELSE 0
                ELSE /\ b.daily_reset_date = a.daily_reset_date
                     /\ b.daily_free_used = a.daily_free_used

\* C14: the free-use counter of an account is reset to zero exactly once
\* for each change of the calendar day that a read observes, and is never
\* reset by a read made on the day stored in daily_reset_date, however
\* many reads are made that day.
C14_ResetOncePerDay == [][C14_Step]_vars

\* a status read found the free uses of an earlier day and reset them
C14_Witness ==
    /\ ev.op = "status" /\ ev.userId = "alice"
    /\ "alice" \in DOMAIN freeLog /\ freeLog["alice"].day < Today(now)
    /\ users["alice"].daily_reset_date = Today(now)
    /\ users["alice"].daily_free_used = 0

\* a gate evaluation: what it reports is what canAccess decided for a message
\* without marker, and the account is debited by exactly what it reports
C15_Step ==
    LET u == ev'.userId
        access == canAccess(users, u, now)
    IN
    ev'.op = "gate" =>
        /\ (~ev'.hadMarker /\ ev'.access # "bypass") =>
              ev'.access = IF access.allowed THEN access.reason ELSE "blocked"
        /\ (ev'.access \in {"credit", "free"}) =>
              access.consumeType = ev'.access
        /\ CreditBalance(users', u) =
              CreditBalance(users, u) - (IF ev'.access = "credit" THEN 1 ELSE 0)
        /\ FreeUsesToday(users', u, now) =
              FreeUsesToday(users, u, now) + (IF ev'.access = "free" THEN 1 ELSE 0)

\* C15: whenever canAccess reports consumeType 'credit' (resp. 'free') and
\* the gate reports access granted by it, exactly one credit (resp. one free
\* use) is removed from the account of the user, and a gate evaluation that
\* reports anything else removes nothing.
C15_ConsumeRoundTrip == [][C15_Step]_vars

\* the gate granted a message of alice on her only credit
C15_Witness ==
    /\ ev.op = "gate" /\ ev.access = "credit" /\ ev.userId = "alice"
    /\ Count(consumed, "alice") = 1 /\ CreditBalance(users, "alice") = 0

\* the scenario: what each of its seven steps is answered, and the credit
\* balance after it
ScenarioAnswers == <<"free", "free", "free", "blocked", "credits_granted", "credit", "blocked">>
ScenarioBalance == <<0, 0, 0, 0, 1, 0, 0>>

\* how far the run has followed the scenario, from the free grants, the
\* denials, the redemption and the credits spent; -1 when it left it
Denials == Cardinality({k \in DOMAIN processedMessages : ~processedMessages[k].hasAccess})
ScenarioDone ==
    LET grants == FreeGrantsToday(freeLog, "alice", now)
        redeemed == isPaymentUsed(payments, "0xa1")
        spent == Count(consumed, "alice")
    IN
    IF Denials = 0 /\ ~redeemed /\ spent = 0 THEN grants
    ELSE IF grants = FREE_DAILY_LIMIT /\ Denials = 1 /\ ~redeemed /\ spent = 0 THEN 4
    ELSE IF grants = FREE_DAILY_LIMIT /\ Denials = 1 /\ redeemed /\ spent = 0 THEN 5
    ELSE IF grants = FREE_DAILY_LIMIT /\ Denials = 1 /\ redeemed /\ spent = 1 THEN 6
    ELSE IF grants = FREE_DAILY_LIMIT /\ Denials = 2 /\ redeemed /\ spent = 1 THEN 7
    ELSE -1

\* the next step of the scenario, when the step taken is of its kind: a check
\* of a new message, or at the fifth place the redemption
C16_Step ==
    LET i == ScenarioDone + 1
        isCheck == ev'.op = "gate" /\ ~ev'.hadMarker
        isRedeem == ev'.op = "verifyEnd"
    IN
    (/\ ScenarioDone \in 0..6
     /\ IF i = 5 THEN isRedeem ELSE isCheck) =>
        /\ (IF isRedeem THEN ev'.reply ELSE ev'.access) = ScenarioAnswers[i]
        /\ CreditBalance(users', "alice") = ScenarioBalance[i]

\* C16: for a fresh user on one day, four checks, the redemption of a valid
\* single-credit payment and two more checks are answered free, free, free,
\* denied, one credit added, credit (balance 0 afterwards), denied.
C16_Scenario == [][C16_Step]_vars

\* the scenario has run to its end: the sixth check was denied
C16_Witness ==
    /\ ScenarioDone = 7 /\ ev.op = "gate" /\ ev.access = "blocked"
    /\ CreditBalance(users, "alice") = 0

\* the ledger is unavailable (no service) or its storage fails (the database
\* file cannot be written)
LedgerDown == ledger # "open" \/ io = "fails"

\* with the ledger down, canAccess inside the provider does not answer
\* allowed and the provider does not answer hasAccess=true, for an ordinary
\* message of a user who is not known to be an admin or subscribed
C17_Step ==
    ( /\ ev'.op = "gate"
      /\ ev'.access # "bypass"
      /\ LedgerDown
      /\ ~AdminFlag(users, ev'.userId)
      /\ ~SubscriptionValid(users, ev'.userId, now) )
    => ~ev'.hasAccess

\* C17: in every state where the ledger is unavailable or failing (database
\* handle not initialised, service missing, storage operation failing) the
\* gate does not report allowed: canAccess does not return allowed=true and
\* the provider does not return hasAccess=true for an ordinary message of a
\* user not known to be an admin or subscribed
C17_FailsClosed == [][C17_Step]_vars

\* a Ledger Store operation of this step changed a table and its write of
\* the database file failed
WriteFailed == io = "fails" /\ (users' # users \/ payments' # payments)

\* consumeCredit, and the redemption (recordPayment, then grantPro or
\* addCredits), do not end normally when their write failed
C18_Step ==
    (WriteFailed /\ ev'.op \in {"consumeCredit", "verifyEnd"}) => ~ev'.ret

\* C18: a storage I/O failure during a Ledger Store operation, the write of
\* the database file after a mutation included, is reported to the caller as
\* a distinguishable error: no operation returns its normal result after a
\* failed write
C18_WriteFailureReported == [][C18_Step]_vars

\* no step takes a payment record away: what isPaymentUsed answered true
\* for, it answers true for in the next state
C19_Step ==
    \A tx \in TxIds : isPaymentUsed(payments, tx) => isPaymentUsed(payments', tx)

\* C19: once a transaction id has been redeemed, isPaymentUsed answers true
\* for it in every later state, after a restart of the process that loads
\* the tables again from the database file included
C19_RedeemedForever == [][C19_Step]_vars

\* across the two processes no more credits are spent than the payments
\* recorded by either bought
C20_SpendInv ==
    \A u \in KnownKeys :
        Count(consumed, u) <= GrantedCredits(payments \cup peer.payments, u)

\* a payment record that reached the file is in the file after every save
C20_Step ==
    \A tx \in TxIds : isPaymentUsed(disk.payments, tx) => isPaymentUsed(disk'.payments, tx)

\* C20: with two process instances on the same ledger file, consumeCredit,
\* consumeDailyFree and recordPayment stay atomic check-and-update steps: no
\* instance acts on stale state (no credit is spent twice) and no committed
\* update is overwritten by a later save of the other instance
C20_SharedFileAtomic == [](C20_SpendInv) /\ [][C20_Step]_vars

\* the fields the resolver's tiers read
NumericSender(m) == Truthy(m.rawSenderId) /\ m.rawSenderId.t = "number"
StableAuthor(m) == Or(m.authorId, m.author_id)
HasStableAuthor(m) == Truthy(StableAuthor(m)) /\ StableAuthor(m).s \notin UuidShaped

\* the first applicable of the four tiers; the literal is the answer when no
\* identity field at all is present
FirstApplicable(m) ==
    IF NumericSender(m) THEN m.rawSenderId.s
    ELSE IF HasStableAuthor(m) THEN StableAuthor(m).s
    ELSE IF Truthy(m.roomId) THEN m.roomId.s
    ELSE Or(Or(m.userId, m.entityId), Str("unknown")).s

\* C21: extractUserId returns the first applicable of the numeric sender id,
\* the stable author id when it is not UUID-shaped, the room id and the
\* fallback; for every message, whatever fields are present or absent, the
\* result is a non-empty string
C21_FirstApplicable ==
    ev.op = "extractUserId" =>
        /\ ev.userId # ""
        /\ ev.userId = FirstApplicable(ev.msg)

\* a payment-proof text: an explicit paid phrase or a transaction hash
PaymentProof(text) == TextHas(text, PaidTokens) \/ TextHas(text, TxIds)

\* the answers of the provider that rest on an access check
Checked == {"admin", "pro", "credit", "free", "shared", "blocked"}

\* a message that is neither the admin secret nor a payment proof is answered
\* from an access check, and a grant by credit or free use debits one unit
C22_Step ==
    LET text == ev'.key[3]
        u == ev'.userId
    IN
    (ev'.op = "gate" /\ ~IsAdminKey(text) /\ ~PaymentProof(text)) =>
        /\ ev'.access \in Checked
        /\ ev'.access = "credit" => CreditBalance(users', u) = CreditBalance(users, u) - 1
        /\ ev'.access = "free" =>
               FreeUsesToday(users', u, now) = FreeUsesToday(users, u, now) + 1

\* C22: every inbound message that is neither the admin secret nor a
\* payment-proof message goes through the access check of x402Provider.get
\* (allowed by privilege, allowed with one unit debited, allowed as shared
\* by a marker, or blocked); no other text makes the gate report hasAccess
\* without an access check
C22_EveryMessageChecked == [][C22_Step]_vars

\* the configured admin secret: ADMIN_API_KEY when it is set, the fallback
\* literal when it is not
ConfiguredSecret == IF Truthy(env) THEN env.s ELSE ADMIN_SECRET

\* C23: the admin login is taken exactly when the text, trimmed and without
\* a surrounding quote, equals the configured admin secret: ADMIN_API_KEY
\* when it is set, and the fallback literal only when it is not
C23_LoginStep ==
    ev'.op = "adminLogin" =>
        (ev'.ret <=> StripQuotes(ev'.key[3]) = <<ConfiguredSecret>>)

C23_LoginByConfiguredSecret == [][C23_LoginStep]_vars

\* canAccess leaves every table as it found it
C24_NoWriteStep == ev'.op = "evaluator" => users' = users

\* the statement of C24 as written: a validate that only calls canAccess
\* leaves the set of accounts and every account field unchanged
C24_AsClaimed == [][C24_NoWriteStep]_vars

\* what a validate that only calls canAccess leaves alone: the only new row
\* is the zero-valued row of the user asked about; no credit, admin flag or
\* expiry changes; the admin, subscription, credit and free-use readings of
\* every account, and the verdict, are the same after the call; a second
\* call changes nothing
C24_ReadStep ==
    LET u == ev'.userId IN
    ev'.op = "evaluator" =>
        /\ DOMAIN users' \subseteq DOMAIN users \cup {u}
        /\ u \notin DOMAIN users /\ u \in DOMAIN users' => users'[u] = NewRow(now)
        /\ \A v \in DOMAIN users :
              /\ v \in DOMAIN users'
              /\ users'[v].credits = users[v].credits
              /\ users'[v].is_admin = users[v].is_admin
              /\ users'[v].pro_expires_at = users[v].pro_expires_at
              /\ v # u => users'[v] = users[v]
        /\ \A v \in KnownKeys :
              /\ AdminFlag(users', v) = AdminFlag(users, v)
              /\ SubscriptionValid(users', v, now) = SubscriptionValid(users, v, now)
              /\ CreditBalance(users', v) = CreditBalance(users, v)
              /\ FreeUsesToday(users', v, now) = FreeUsesToday(users, v, now)
        /\ canAccess(users', u, now) = canAccess(users, u, now)
        /\ canAccessDb(users', u, now) = users'

\* credits and free uses of the day change only in the provider's
\* consumption and in the redemption of a payment
C24_DebitStep ==
    (now' = now /\ \E v \in KnownKeys \cup DOMAIN users' :
        \/ CreditBalance(users', v) # CreditBalance(users, v)
        \/ FreeUsesToday(users', v, now) # FreeUsesToday(users, v, now))
    => ev'.op \in {"gate", "verifyEnd"}

\* C24: X402Service.canAccess does not debit and does not change what the
\* ledger says: a validate that only calls canAccess, called any number of
\* times, may create the zero-valued account of the user, reset a free-use
\* counter of an earlier day and clear the flag of an expired subscription,
\* and changes no credit, admin flag, expiry, subscription validity, free
\* uses of the day or verdict; only the gate's consumption and the payment
\* redemption change balances
C24_CanAccessReadOnly == [][C24_ReadStep /\ C24_DebitStep]_vars

\* the evaluator has run canAccess for a user whose expired subscription
\* flag is cleared
C24_Witness ==
    /\ ev.op = "evaluator" /\ ev.access = "free"
    /\ ev.userId \in DOMAIN users
    /\ users[ev.userId].is_pro = 0
    /\ users[ev.userId].pro_expires_at # NoDate
    /\ users[ev.userId].pro_expires_at < now

\* the reason of the first failing check, in the order: RPC error, not
\* found, receipt missing or reverted, wrong contract, no transfer to the
\* receiving address; "" when every check passes
FirstFailure(txHash, view) ==
    LET tx == ChainTx(txHash) IN
    IF view = "throws" THEN "rpc_error"
    ELSE IF view = "unknown" THEN "not_found"
    ELSE IF view = "noreceipt" \/ tx.status # 1 THEN "tx_failed"
    ELSE IF tx.to # USDC_ADDRESS THEN "not_usdc"
    ELSE IF ~\E i \in 1..Len(tx.logs) :
                tx.logs[i].name = "Transfer" /\ tx.logs[i].to = RECEIVER_ADDRESS
        THEN "no_transfer"
    ELSE ""

\* the handler's answer is the reason of the first failing check, and it
\* redeems only when no check fails
C25_Step ==
    LET first == FirstFailure(ev'.txHash, ev'.view) IN
    ev'.op = "verifyEnd" =>
        /\ first # "" => ~ev'.ret /\ ev'.reply = first
        /\ ev'.ret => first = ""
        /\ verifyPaymentOnChain(ev'.txHash, ev'.view).verified <=> first = ""

\* C25: verifyPaymentOnChain applies its failure checks in the order
\* transaction not found, receipt missing or reverted, target is not the
\* token contract, no transfer event to the receiving address; each kind of
\* failure, an RPC or network error included, gives a reason of its own; it
\* returns verified = true only when every check passes
C25_FailureOrder == [](Cardinality(FailureReplies) = 5) /\ [][C25_Step]_vars

\* a reverted transaction to another contract without a transfer to the
\* receiving address was answered by the reason of the first failing check
C25_Witness ==
    /\ ev.op = "verifyEnd" /\ ev.txHash = "0xd5" /\ ev.view = "ok"
    /\ ev.reply = "tx_failed" /\ ~ev.ret

\* the age of a marker
Age(k) == now - processedMessages[k].timestamp

\* no marker is older than the window plus one period of the timer
C26_AgeInv ==
    \A k \in DOMAIN processedMessages : Age(k) <= WindowMinutes + SweepPeriodMinutes

\* a marker is deleted only when the window since its creation has elapsed,
\* and the timer leaves no marker older than the window
C26_Step ==
    /\ \A k \in DOMAIN processedMessages :
          k \notin DOMAIN processedMessages' => Age(k) > WindowMinutes
    /\ ev'.op = "timer" =>
          \A k \in DOMAIN processedMessages' :
              now' - processedMessages'[k].timestamp <= WindowMinutes

\* a marker written early enough for the clock of the model to reach the
\* end of its window and the next firing of the timer is deleted
C26_Removed ==
    \A m \in TimerAsks :
        LET k == getMessageKey(m) IN
        (k \in DOMAIN processedMessages
            /\ processedMessages[k].timestamp + WindowMinutes + SweepPeriodMinutes <= MaxMinutes)
        ~> (k \notin DOMAIN processedMessages)

C27_Step ==
    LET k == ev'.key IN
    (/\ ev'.op \in {"evaluator", "checkPayment"}
     /\ k \in DOMAIN processedMessages
     /\ processedMessages[k].hasAccess
     /\ now - processedMessages[k].timestamp <= WindowMinutes)
    => ~ev'.ret

\* C27: a message that x402Provider.get granted is never also treated as
\* payment-required: after the provider has granted it by consuming the
\* user's last credit or last free use, CHECK_PAYMENT.validate and
\* x402PaymentGateEvaluator.validate of that same message do not return true
C27_GrantedNotPrompted == [][C27_Step]_vars

\* a message answered as shared is a message of the user whose message
\* wrote the marker
C28_Step ==
    (ev'.op = "gate" /\ ev'.access = "shared") =>
        processedMessages[ev'.key].userId = ev'.userId

\* C28: a de-duplication marker gives shared, non-consuming access only to
\* re-evaluations of the message that wrote it: two distinct inbound
\* messages, of different users in one conversation or of one user, never
\* get access from one another's marker, so every distinct granted message
\* of a user without privilege debits one unit
C28_MarkerOfOwnMessage == [][C28_Step]_vars

\* C29: two submissions whose transaction hashes differ only in the case of
\* their hex digits are the same on-chain transaction and the same txId to
\* isPaymentUsed and recordPayment: at most one of them is redeemed, so the
\* payment log holds at most one row per transaction
C29_OneRowPerTransaction ==
    \A p, q \in payments : LowerHex(p.tx_hash) = LowerHex(q.tx_hash) => p = q

\* the subscription of account u is granted or extended by the step
SubscriptionGranted(u) ==
    /\ u \in DOMAIN users'
    /\ users'[u].is_pro = 1
    /\ (u \in DOMAIN users /\ users[u].is_pro = 1) =>
           users'[u].pro_expires_at > users[u].pro_expires_at

\* the step of a handler that inserts the payment record of a txId that had
\* none, after the chain verification succeeded
RedeemStep ==
    /\ ev'.op = "verifyEnd" /\ ev'.ret /\ ev'.view = "ok"
    /\ ChainConfirms(ev'.txHash)
    /\ ~isPaymentUsed(payments, ev'.txHash)
    /\ payments' = payments \cup {p \in payments' : p.tx_hash = ev'.txHash /\ p.user_id = ev'.userId}
    /\ payments' # payments

\* a balance rises or a subscription is granted only in a redeeming step and
\* only for the submitter; the redeeming step leaves every other account as
\* it was
C30_Step ==
    /\ \A u \in DOMAIN users' :
          (CreditBalance(users', u) > CreditBalance(users, u) \/ SubscriptionGranted(u)) =>
              RedeemStep /\ u = ev'.userId
    /\ RedeemStep =>
          \A u \in DOMAIN users' \ {ev'.userId} : u \in DOMAIN users /\ users'[u] = users[u]

\* C30: an account's credit balance rises, or its subscription is granted,
\* only in the step in which the payment record of a txId that had none is
\* inserted after a successful chain verification, and that step changes
\* only the account of the user who submitted the proof; access checks,
\* status queries, admin login and logout and failed verifications raise no
\* balance and grant no subscription.
C30_GrantOnlyByRedeem == [][C30_Step]_vars

\* alice redeemed 0xa1 and holds one credit while the sender 101, whose
\* account exists, redeemed the subscription transfer 0xb7 and holds none
C30_Witness ==
    /\ ev.op = "verifyEnd" /\ ev.ret /\ ev.userId = "101" /\ ev.reply = "pro_granted"
    /\ "alice" \in DOMAIN users /\ users["alice"].credits = 1
    /\ users["101"].credits = 0 /\ users["101"].is_pro = 1
    /\ \E p \in payments : p.tx_hash = "0xa1" /\ p.user_id = "alice"

====
